---- MODULE Spec2Model ----
(***************************************************************************)
(* Model of examples/python_client.py: the class VPNServiceClient (one     *)
(* method per endpoint of the VPN service's REST API) and the script       *)
(* main().  The server and the network are the environment: every action   *)
(* draws the server's answer (a transport failure, or a status code and a  *)
(* body text) from a small set.                                            *)
(***************************************************************************)
EXTENDS Integers, Sequences, FiniteSets, TLC

VARIABLES
    base_url,   \* VPNServiceClient.base_url
    session,    \* VPNServiceClient.session (the handle of requests.Session())
    call,       \* the call that completed last: its inputs, requests and outcome
    earlier,    \* a call that completed earlier, kept to compare the last one with
    pc,         \* main(): the statement it is at
    user,       \* main(): the local `user`
    user_id,    \* main(): the local `user_id`
    log         \* main(): the HTTP requests issued so far, in order

vars == <<base_url, session, call, earlier, pc, user, user_id, log>>
clientvars == <<base_url, session>>
mainvars == <<pc, user, user_id, log>>

(***************************************************************************)
(* Python values.  Every value is a one-field record whose field names its *)
(* type, so that values of different types can be compared.                *)
(***************************************************************************)
PyNone == [none |-> TRUE]
PyBool(b) == [bool |-> b]
PyInt(n) == [int |-> n]
\* the int n * 1024**3, kept as its number of GiB (it exceeds 32 bits)
PyGiB(n) == [gib |-> n]
PyStr(s) == [str |-> s]
\* a str built character by character (isoformat's result)
PyChars(cs) == [chars |-> cs]
PyList(items) == [list |-> items]
PyDict(kv) == [dict |-> kv]
NoValue == [novalue |-> TRUE]

IsNone(v) == DOMAIN v = {"none"}
IsBool(v) == DOMAIN v = {"bool"}
IsInt(v) == DOMAIN v = {"int"}
IsStr(v) == DOMAIN v = {"str"}
IsList(v) == DOMAIN v = {"list"}
IsDict(v) == DOMAIN v = {"dict"}

EmptyDict == PyDict(<<>>)

Digits == <<"0", "1", "2", "3", "4", "5", "6", "7", "8", "9">>

RECURSIVE IntStr(_)
IntStr(n) == IF n < 10 THEN Digits[n + 1] ELSE IntStr(n \div 10) \o Digits[(n % 10) + 1]

\* str(v), as an f-string formats v
py_str(v) ==
    CASE IsStr(v) -> v.str
      [] IsInt(v) -> IntStr(v.int)
      [] IsNone(v) -> "None"
      [] IsBool(v) -> IF v.bool THEN "True" ELSE "False"

\* bool(v), as `if v:` tests v
py_truthy(v) ==
    CASE IsNone(v) -> FALSE
      [] IsBool(v) -> v.bool
      [] IsInt(v) -> v.int # 0
      [] IsStr(v) -> v.str # ""
      [] IsList(v) -> Len(v.list) # 0
      [] IsDict(v) -> DOMAIN v.dict # {}

(***************************************************************************)
(* datetime: a naive datetime is its proleptic Gregorian ordinal (day 1 is *)
(* 0001-01-01) and its time of day.                                        *)
(***************************************************************************)
MAXORDINAL == 3652059   \* datetime.max.toordinal(): 9999-12-31

DateTime(ordinal, hour, minute, second, microsecond) ==
    [ordinal |-> ordinal, hour |-> hour, minute |-> minute,
     second |-> second, microsecond |-> microsecond]

NoClock == DateTime(0, 0, 0, 0, 0)

IsLeap(y) == (y % 4 = 0) /\ ((y % 100 # 0) \/ (y % 400 = 0))

DaysInMonth(y, m) ==
    IF m = 2 THEN (IF IsLeap(y) THEN 29 ELSE 28)
    ELSE IF m \in {4, 6, 9, 11} THEN 30 ELSE 31

RECURSIVE DaysBeforeMonth(_, _)
DaysBeforeMonth(y, m) ==
    IF m = 1 THEN 0 ELSE DaysBeforeMonth(y, m - 1) + DaysInMonth(y, m - 1)

DaysBeforeYear(y) ==
    ((y - 1) * 365) + ((y - 1) \div 4) - ((y - 1) \div 100) + ((y - 1) \div 400)

\* datetime._ymd2ord
ymd2ord(y, m, d) == DaysBeforeYear(y) + DaysBeforeMonth(y, m) + d

\* datetime._ord2ymd: the 400-, 100-, 4- and 1-year cycles
ord2ymd(ordinal) ==
    LET n0 == ordinal - 1
        n400 == n0 \div 146097
        r400 == n0 % 146097
        n100 == r400 \div 36524
        r100 == r400 % 36524
        n4 == r100 \div 1461
        r4 == r100 % 1461
        n1 == r4 \div 365
        r1 == r4 % 365
        year == (n400 * 400) + 1 + (n100 * 100) + (n4 * 4) + n1
        month == CHOOSE m \in 1..12 :
                    /\ DaysBeforeMonth(year, m) <= r1
                    /\ r1 < DaysBeforeMonth(year, m) + DaysInMonth(year, m)
    IN  IF n1 = 4 \/ n100 = 4
        THEN [year |-> year - 1, month |-> 12, day |-> 31]
        ELSE [year |-> year, month |-> month,
              day |-> (r1 - DaysBeforeMonth(year, month)) + 1]

Pow10(k) == CASE k = 0 -> 1 [] k = 1 -> 10 [] k = 2 -> 100 [] k = 3 -> 1000
              [] k = 4 -> 10000 [] k = 5 -> 100000

\* "%0<width>d" % n
Pad(n, width) == [i \in 1..width |-> Digits[((n \div Pow10(width - i)) % 10) + 1]]

\* datetime.isoformat(): the fraction is written only when it is not zero
isoformat(dt) ==
    LET ymd == ord2ymd(dt.ordinal)
    IN  Pad(ymd.year, 4) \o <<"-">> \o Pad(ymd.month, 2) \o <<"-">> \o Pad(ymd.day, 2)
        \o <<"T">> \o Pad(dt.hour, 2) \o <<":">> \o Pad(dt.minute, 2)
        \o <<":">> \o Pad(dt.second, 2)
        \o (IF dt.microsecond # 0 THEN <<".">> \o Pad(dt.microsecond, 6) ELSE <<>>)

\* datetime + timedelta(days=days): OverflowError beyond datetime.max
add_days_overflows(dt, days) == dt.ordinal + days > MAXORDINAL \/ dt.ordinal + days < 1

add_days(dt, days) == [dt EXCEPT !.ordinal = dt.ordinal + days]

(***************************************************************************)
(* The inputs the environment and the caller draw from.                    *)
(***************************************************************************)
DefaultBaseUrl == "http://localhost:8080"
BaseUrls == {DefaultBaseUrl, "https://vpn.example.org/"}

NowSet == {DateTime(ymd2ord(2024, 2, 29), 23, 59, 59, 999999),
           DateTime(ymd2ord(2026, 11, 4), 15, 46, 7, 0)}

MaxDays == 2
HugeDays == 3000000
DaysGiven == (1..MaxDays) \cup {HugeDays}

Usernames == {"alice", "bob"}
Passwords == {"s3cret"}
TrafficLimits == {5}
UserIds == {PyStr("abc"), PyInt(7)}
KwargSets == {<<>>, [traffic_limit |-> PyGiB(20)]}

B_OK == "{\"success\": true, \"data\": {\"id\": \"abc\", \"uri\": \"vless://abc\"}}"
B_FAIL == "{\"success\": false, \"data\": {\"id\": \"abc\"}}"
B_EMPTY == "{}"
B_LIST == "[]"
B_NODATA == "{\"success\": true}"
B_INTID == "{\"success\": 1, \"data\": {\"id\": 7}}"
B_BLANK == ""
B_HTML == "<html>Bad Gateway</html>"

Statuses == {200, 204, 404}
Bodies == {B_OK, B_LIST, B_BLANK, B_HTML}
MainBodies == {B_OK, B_FAIL, B_EMPTY, B_LIST, B_NODATA, B_INTID, B_BLANK, B_HTML}

Answer(status, text) == [kind |-> "answer", status_code |-> status, text |-> text]
TransportFailure == [kind |-> "failed", status_code |-> 0, text |-> ""]
NoResponse == [kind |-> "none", status_code |-> 0, text |-> ""]

Responses == {TransportFailure} \cup {Answer(s, t) : s \in Statuses, t \in Bodies}
SeqResponses == {TransportFailure, Answer(200, B_OK), Answer(204, B_BLANK)}
MainResponses == {TransportFailure} \cup {Answer(s, t) : s \in Statuses, t \in MainBodies}

(***************************************************************************)
(* requests: Session.get/post/patch/delete and Response.json().            *)
(***************************************************************************)
NoParams == {}
NoJson == PyNone

\* the query string requests builds from `params` (no "?" part for an empty dict)
urlencode(params) ==
    IF params = {} THEN ""
    ELSE LET p == CHOOSE q \in params : TRUE IN p[1] \o "=" \o p[2]

Request(method, url, params, json) ==
    [method |-> method, url |-> url, query |-> urlencode(params), json |-> json]

session_get(url, params) == Request("GET", url, params, NoJson)
session_post(url, json) == Request("POST", url, NoParams, json)
session_patch(url, json) == Request("PATCH", url, NoParams, json)
session_delete(url) == Request("DELETE", url, NoParams, NoJson)

Return(v) == [kind |-> "return", value |-> v, exc |-> ""]
Raise(e) == [kind |-> "raise", value |-> NoValue, exc |-> e]

json_valid(text) == text \in {B_OK, B_FAIL, B_EMPTY, B_LIST, B_NODATA, B_INTID}

\* json.loads on the body texts of the catalogue
json_loads(text) ==
    CASE text = B_OK ->
            PyDict([success |-> PyBool(TRUE),
                    data |-> PyDict([id |-> PyStr("abc"), uri |-> PyStr("vless://abc")])])
      [] text = B_FAIL ->
            PyDict([success |-> PyBool(FALSE), data |-> PyDict([id |-> PyStr("abc")])])
      [] text = B_EMPTY -> EmptyDict
      [] text = B_LIST -> PyList(<<>>)
      [] text = B_NODATA -> PyDict([success |-> PyBool(TRUE)])
      [] text = B_INTID ->
            PyDict([success |-> PyInt(1), data |-> PyDict([id |-> PyInt(7)])])

\* mutant of response_json: a body that is not JSON decodes to None
response_json_lenient(resp) ==
    IF json_valid(resp.text) THEN Return(json_loads(resp.text)) ELSE Return(PyNone)

\* response.json(): the decoded body, or JSONDecodeError; the status is not read
response_json(resp) ==
    IF json_valid(resp.text) THEN Return(json_loads(resp.text))
    ELSE Raise("JSONDecodeError")

\* mutant of issued: a failed request is sent again
issued_retry(req, resp) == IF resp.kind = "failed" THEN <<req, req>> ELSE <<req>>

\* the requests one session.<verb>(...) call puts on the wire
issued(req, resp) == <<req>>

\* mutant of json_result: response.raise_for_status() before decoding
json_result_raise_for_status(resp) ==
    IF resp.kind = "failed" THEN Raise("ConnectionError")
    ELSE IF resp.status_code >= 400 THEN Raise("HTTPError")
    ELSE response_json(resp)

\* `response = self.session.<verb>(...)` then `return response.json()`:
\* an exception of the session call propagates, nothing catches it
json_result(resp) ==
    IF resp.kind = "failed" THEN Raise("ConnectionError") ELSE response_json(resp)

\* mutant of status_result: `return response.ok`
status_result_ok(resp) ==
    IF resp.kind = "failed" THEN Raise("ConnectionError")
    ELSE Return(PyBool(resp.status_code >= 200 /\ resp.status_code < 300))

\* `return response.status_code == 204`
status_result(resp) ==
    IF resp.kind = "failed" THEN Raise("ConnectionError")
    ELSE Return(PyBool(resp.status_code = 204))

(***************************************************************************)
(* VPNServiceClient: the request each method builds.                       *)
(***************************************************************************)
DefaultTrafficLimit == 0
DefaultDays == 30

\* a keyword argument, or the default of the signature when it is not passed
Arg(args, name, default) == IF name \in DOMAIN args THEN args[name] ELSE default

health_check_request == session_get(base_url \o "/health", NoParams)

get_stats_request == session_get(base_url \o "/stats", NoParams)

create_user_days(args) == Arg(args, "days", PyInt(DefaultDays)).int

create_user_overflows(args, now) == add_days_overflows(now, create_user_days(args))

\* mutant of create_user_expires_at: no "Z" after the timestamp
create_user_expires_at_naive(args, now) ==
    PyChars(isoformat(add_days(now, create_user_days(args))))

create_user_expires_at(args, now) ==
    PyChars(isoformat(add_days(now, create_user_days(args))) \o <<"Z">>)

\* mutant of create_user_data: the days are sent along as a fifth field
create_user_data_with_days(args, now) ==
    PyDict([username |-> args["username"],
            password |-> args["password"],
            traffic_limit |-> Arg(args, "traffic_limit", PyInt(DefaultTrafficLimit)),
            days |-> Arg(args, "days", PyInt(DefaultDays)),
            expires_at |-> create_user_expires_at(args, now)])

create_user_data(args, now) ==
    PyDict([username |-> args["username"],
            password |-> args["password"],
            traffic_limit |-> Arg(args, "traffic_limit", PyInt(DefaultTrafficLimit)),
            expires_at |-> create_user_expires_at(args, now)])

create_user_request(args, now) ==
    session_post(base_url \o "/api/users", create_user_data(args, now))

\* mutant of list_users_params: a dict shared between calls keeps the flag of
\* the call before
list_users_params_sticky(args) ==
    IF \/ py_truthy(Arg(args, "active_only", PyBool(FALSE)))
       \/ (call.op = "list_users" /\ call.sent[1].query # "")
    THEN {<<"active", "true">>} ELSE {}

\* mutant of list_users_params: the flag is always sent
list_users_params_always(args) ==
    {<<"active", IF py_truthy(Arg(args, "active_only", PyBool(FALSE))) THEN "true" ELSE "false">>}

list_users_params(args) ==
    IF py_truthy(Arg(args, "active_only", PyBool(FALSE)))
    THEN {<<"active", "true">>} ELSE {}

list_users_request(args) == session_get(base_url \o "/api/users", list_users_params(args))

get_user_request(args) ==
    session_get(base_url \o "/api/users/" \o py_str(args["user_id"]), NoParams)

update_user_request(args) ==
    session_patch(base_url \o "/api/users/" \o py_str(args["user_id"]),
                  PyDict(args["kwargs"]))

delete_user_request(args) ==
    session_delete(base_url \o "/api/users/" \o py_str(args["user_id"]))

get_user_config_request(args) ==
    session_get(base_url \o "/api/users/" \o py_str(args["user_id"]) \o "/config", NoParams)

\* mutant of reset_traffic_request: an underscore in the path
reset_traffic_request_underscore(args) ==
    session_post(base_url \o "/api/users/" \o py_str(args["user_id"]) \o "/reset_traffic",
                 NoJson)

reset_traffic_request(args) ==
    session_post(base_url \o "/api/users/" \o py_str(args["user_id"]) \o "/reset-traffic",
                 NoJson)

(***************************************************************************)
(* One call of a method: the requests it issued and how it ended.          *)
(***************************************************************************)
NoCall ==
    [op |-> "none", args |-> <<>>, clock |-> NoClock, response |-> NoResponse,
     sent |-> <<>>, outcome |-> [kind |-> "none", value |-> NoValue, exc |-> ""]]

Complete(op, args, clock, resp, sent, outcome) ==
    /\ call' = [op |-> op, args |-> args, clock |-> clock, response |-> resp,
                sent |-> sent, outcome |-> outcome]
    /\ UNCHANGED clientvars

NoArgs == <<>>

health_check_call(resp) ==
    Complete("health_check", NoArgs, NoClock, resp,
             issued(health_check_request, resp), json_result(resp))

get_stats_call(resp) ==
    Complete("get_stats", NoArgs, NoClock, resp,
             issued(get_stats_request, resp), json_result(resp))

\* line 27 raises OverflowError before any request when the date is out of range
create_user_call(args, now, resp) ==
    IF create_user_overflows(args, now)
    THEN Complete("create_user", args, now, NoResponse, <<>>, Raise("OverflowError"))
    ELSE Complete("create_user", args, now, resp,
                  issued(create_user_request(args, now), resp), json_result(resp))

list_users_call(args, resp) ==
    Complete("list_users", args, NoClock, resp,
             issued(list_users_request(args), resp), json_result(resp))

get_user_call(args, resp) ==
    Complete("get_user", args, NoClock, resp,
             issued(get_user_request(args), resp), json_result(resp))

update_user_call(args, resp) ==
    Complete("update_user", args, NoClock, resp,
             issued(update_user_request(args), resp), json_result(resp))

delete_user_call(args, resp) ==
    Complete("delete_user", args, NoClock, resp,
             issued(delete_user_request(args), resp), status_result(resp))

get_user_config_call(args, resp) ==
    Complete("get_user_config", args, NoClock, resp,
             issued(get_user_config_request(args), resp), json_result(resp))

reset_traffic_call(args, resp) ==
    Complete("reset_traffic", args, NoClock, resp,
             issued(reset_traffic_request(args), resp), json_result(resp))

(***************************************************************************)
(* The methods, called with arguments and answers drawn from given sets.   *)
(***************************************************************************)
CreateUserArgs ==
    {([username |-> PyStr(u), password |-> PyStr(p)] @@ tl) @@ d :
        u \in Usernames, p \in Passwords,
        tl \in {<<>>} \cup {[traffic_limit |-> PyInt(t)] : t \in TrafficLimits},
        d \in {<<>>} \cup {[days |-> PyInt(n)] : n \in DaysGiven}}

ListUsersArgs == {<<>>, [active_only |-> PyBool(TRUE)], [active_only |-> PyBool(FALSE)]}

UserArgs == {[user_id |-> id] : id \in UserIds}

UpdateUserArgs == {[user_id |-> id, kwargs |-> kw] : id \in UserIds, kw \in KwargSets}

health_check_step(R) == \E resp \in R : health_check_call(resp)

get_stats_step(R) == \E resp \in R : get_stats_call(resp)

create_user_step(A, T, R) ==
    \E args \in A, now \in T, resp \in R : create_user_call(args, now, resp)

list_users_step(A, R) == \E args \in A, resp \in R : list_users_call(args, resp)

get_user_step(A, R) == \E args \in A, resp \in R : get_user_call(args, resp)

update_user_step(A, R) == \E args \in A, resp \in R : update_user_call(args, resp)

delete_user_step(A, R) == \E args \in A, resp \in R : delete_user_call(args, resp)

get_user_config_step(A, R) == \E args \in A, resp \in R : get_user_config_call(args, resp)

reset_traffic_step(A, R) == \E args \in A, resp \in R : reset_traffic_call(args, resp)

(***************************************************************************)
(* Spec: a caller that holds one client and calls its methods in any order *)
(* with any arguments.                                                     *)
(***************************************************************************)
\* __init__
Init ==
    /\ base_url \in BaseUrls
    /\ session = "Session#1"
    /\ call = NoCall
    /\ earlier = NoCall
    /\ pc = "idle"
    /\ user = NoValue
    /\ user_id = NoValue
    /\ log = <<>>

health_check == health_check_step(Responses) /\ UNCHANGED <<earlier, mainvars>>

get_stats == get_stats_step(Responses) /\ UNCHANGED <<earlier, mainvars>>

create_user ==
    create_user_step(CreateUserArgs, NowSet, Responses) /\ UNCHANGED <<earlier, mainvars>>

list_users == list_users_step(ListUsersArgs, Responses) /\ UNCHANGED <<earlier, mainvars>>

get_user == get_user_step(UserArgs, Responses) /\ UNCHANGED <<earlier, mainvars>>

update_user == update_user_step(UpdateUserArgs, Responses) /\ UNCHANGED <<earlier, mainvars>>

delete_user == delete_user_step(UserArgs, Responses) /\ UNCHANGED <<earlier, mainvars>>

get_user_config == get_user_config_step(UserArgs, Responses) /\ UNCHANGED <<earlier, mainvars>>

reset_traffic == reset_traffic_step(UserArgs, Responses) /\ UNCHANGED <<earlier, mainvars>>

Next ==
    \/ health_check
    \/ get_stats
    \/ create_user
    \/ list_users
    \/ get_user
    \/ update_user
    \/ delete_user
    \/ get_user_config
    \/ reset_traffic

Spec == Init /\ [][Next]_vars

(***************************************************************************)
(* SeqSpec: the same caller, who also keeps one earlier call to compare    *)
(* later ones with; fewer arguments and answers, so that all pairs of      *)
(* calls are explored.                                                     *)
(***************************************************************************)
SeqCreateUserArgs ==
    {a \in CreateUserArgs :
        /\ a["username"] = PyStr("alice")
        /\ "traffic_limit" \notin DOMAIN a
        /\ "days" \in DOMAIN a => a["days"] = PyInt(HugeDays)}

SeqListUsersArgs == {<<>>, [active_only |-> PyBool(TRUE)]}

SeqUserArgs == {[user_id |-> PyStr("abc")]}

SeqUpdateUserArgs == {[user_id |-> PyStr("abc"), kwargs |-> kw] : kw \in KwargSets}

Remember == earlier' \in {earlier, call}

seq_health_check == health_check_step(SeqResponses) /\ Remember /\ UNCHANGED mainvars

seq_get_stats == get_stats_step(SeqResponses) /\ Remember /\ UNCHANGED mainvars

seq_create_user ==
    create_user_step(SeqCreateUserArgs, NowSet, SeqResponses) /\ Remember /\ UNCHANGED mainvars

seq_list_users ==
    list_users_step(SeqListUsersArgs, SeqResponses) /\ Remember /\ UNCHANGED mainvars

seq_get_user == get_user_step(SeqUserArgs, SeqResponses) /\ Remember /\ UNCHANGED mainvars

seq_update_user ==
    update_user_step(SeqUpdateUserArgs, SeqResponses) /\ Remember /\ UNCHANGED mainvars

seq_delete_user == delete_user_step(SeqUserArgs, SeqResponses) /\ Remember /\ UNCHANGED mainvars

seq_get_user_config ==
    get_user_config_step(SeqUserArgs, SeqResponses) /\ Remember /\ UNCHANGED mainvars

seq_reset_traffic ==
    reset_traffic_step(SeqUserArgs, SeqResponses) /\ Remember /\ UNCHANGED mainvars

SeqNext ==
    \/ seq_health_check
    \/ seq_get_stats
    \/ seq_create_user
    \/ seq_list_users
    \/ seq_get_user
    \/ seq_update_user
    \/ seq_delete_user
    \/ seq_get_user_config
    \/ seq_reset_traffic

SeqSpec == Init /\ [][SeqNext]_vars

(***************************************************************************)
(* MainSpec: one run of main().  An exception ends the run (pc "raised"):  *)
(* main() has no try/except.                                               *)
(***************************************************************************)
MainCreateArgs ==
    [username |-> PyStr("test_python_user"), password |-> PyStr("python123"),
     traffic_limit |-> PyGiB(10), days |-> PyInt(30)]

MainUpdateKwargs == [traffic_limit |-> PyGiB(20)]

\* v[key] succeeds: v is a dict that has the key
subscript_ok(v, key) == IsDict(v) /\ key \in DOMAIN v.dict

\* v.get(key): the value, or None
dict_get(v, key) == IF key \in DOMAIN v.dict THEN v.dict[key] ELSE PyNone

\* mutant of main_after_create: the success indicator is not tested
main_after_create_unchecked(u) ==
    IF ~IsDict(u) THEN [pc |-> "raised", user_id |-> NoValue]
    ELSE IF ~(subscript_ok(u, "data") /\ subscript_ok(u.dict["data"], "id"))
    THEN [pc |-> "raised", user_id |-> NoValue]
    ELSE [pc |-> "config", user_id |-> u.dict["data"].dict["id"]]

\* lines 101-102: `if user.get("success"):` and `user_id = user["data"]["id"]`
main_after_create(u) ==
    IF ~IsDict(u) THEN [pc |-> "raised", user_id |-> NoValue]
    ELSE IF ~py_truthy(dict_get(u, "success")) THEN [pc |-> "done", user_id |-> NoValue]
    ELSE IF ~(subscript_ok(u, "data") /\ subscript_ok(u.dict["data"], "id"))
    THEN [pc |-> "raised", user_id |-> NoValue]
    ELSE [pc |-> "config", user_id |-> u.dict["data"].dict["id"]]

\* line 107: config["data"]["uri"]
config_uri_ok(config) == subscript_ok(config, "data") /\ subscript_ok(config.dict["data"], "uri")

\* line 86: VPNServiceClient()
MainInit ==
    /\ base_url = DefaultBaseUrl
    /\ session = "Session#1"
    /\ call = NoCall
    /\ earlier = NoCall
    /\ pc = "health"
    /\ user = NoValue
    /\ user_id = NoValue
    /\ log = <<>>

Raised == call'.outcome.kind = "raise"

\* line 89
main_health_check ==
    /\ pc = "health"
    /\ health_check_step(MainResponses)
    /\ log' = log \o call'.sent
    /\ pc' = IF Raised THEN "raised" ELSE "create"
    /\ UNCHANGED <<earlier, user, user_id>>

\* lines 93-102
main_create_user ==
    /\ pc = "create"
    /\ create_user_step({MainCreateArgs}, NowSet, MainResponses)
    /\ log' = log \o call'.sent
    /\ user' = IF Raised THEN user ELSE call'.outcome.value
    /\ pc' = IF Raised THEN "raised" ELSE main_after_create(user').pc
    /\ user_id' = IF Raised THEN user_id ELSE main_after_create(user').user_id
    /\ UNCHANGED earlier

\* lines 106-107
main_get_user_config ==
    /\ pc = "config"
    /\ get_user_config_step({[user_id |-> user_id]}, MainResponses)
    /\ log' = log \o call'.sent
    /\ pc' = IF Raised \/ ~config_uri_ok(call'.outcome.value) THEN "raised" ELSE "update"
    /\ UNCHANGED <<earlier, user, user_id>>

\* lines 111-112
main_update_user ==
    /\ pc = "update"
    /\ update_user_step({[user_id |-> user_id, kwargs |-> MainUpdateKwargs]}, MainResponses)
    /\ log' = log \o call'.sent
    /\ pc' = IF Raised THEN "raised" ELSE "stats"
    /\ UNCHANGED <<earlier, user, user_id>>

\* lines 116-117
main_get_stats ==
    /\ pc = "stats"
    /\ get_stats_step(MainResponses)
    /\ log' = log \o call'.sent
    /\ pc' = IF Raised THEN "raised" ELSE "done"
    /\ UNCHANGED <<earlier, user, user_id>>

MainNext ==
    \/ main_health_check
    \/ main_create_user
    \/ main_get_user_config
    \/ main_update_user
    \/ main_get_stats

MainSpec == MainInit /\ [][MainNext]_vars

(***************************************************************************)
(* Properties.                                                             *)
(***************************************************************************)
JsonOps == {"health_check", "get_stats", "create_user", "list_users", "get_user",
            "update_user", "get_user_config", "reset_traffic"}

Answered == call.response.kind = "answer"

\* the days a create_user call asks for
DaysOf(c) == IF "days" \in DOMAIN c.args THEN c.args["days"].int ELSE 30

\* a create_user call whose expiry date lies beyond 9999-12-31
OutOfRange(c) == c.op = "create_user" /\ c.clock.ordinal + DaysOf(c) > 3652059

\* C1: delete_user returns true if and only if the server answers 204, and false
\* for every other status (other 2xx included), whatever the body is.
C1_DeleteTrueIff204 ==
    (call.op = "delete_user" /\ Answered) =>
        /\ call.outcome.kind = "return"
        /\ call.response.status_code = 204 => call.outcome.value = PyBool(TRUE)
        /\ call.response.status_code # 204 => call.outcome.value = PyBool(FALSE)

\* delete_user answered 200 with a JSON body returned false
C1_Witness ==
    /\ call.op = "delete_user"
    /\ call.response = Answer(200, B_OK)
    /\ call.outcome = Return(PyBool(FALSE))

\* C2 as stated: every call issues exactly one request, and a transport failure
\* of it ends the call in an error, with no second request.
C2_Original ==
    call.op # "none" =>
        /\ Len(call.sent) = 1
        /\ call.response.kind = "failed" => call.outcome.kind = "raise"

\* C2 amended: every call issues exactly one request and a transport failure of
\* it ends the call in an error with no second request, except a create_user
\* whose expiry date is out of datetime's range: it raises and issues none.
C2_OneRequestNoRetry ==
    call.op # "none" =>
        IF OutOfRange(call)
        THEN Len(call.sent) = 0 /\ call.outcome = Raise("OverflowError")
        ELSE /\ Len(call.sent) = 1
             /\ call.response.kind # "none"
             /\ call.response.kind = "failed" =>
                    call.outcome = Raise("ConnectionError")

\* a call whose request failed at the transport layer ended in the error
C2_Witness ==
    /\ call.op = "get_user"
    /\ call.response.kind = "failed"
    /\ Len(call.sent) = 1
    /\ call.outcome.kind = "raise"

\* C3: a JSON-returning method whose answer has a JSON body returns the decoded
\* body and raises nothing, whatever the status code is.
C3_JsonBodyReturned ==
    (call.op \in JsonOps /\ Answered /\ json_valid(call.response.text)) =>
        /\ call.outcome.kind = "return"
        /\ call.outcome.value = json_loads(call.response.text)

\* a 404 answer with a JSON body was returned decoded
C3_Witness ==
    /\ call.op = "get_user_config"
    /\ call.response = Answer(404, B_OK)
    /\ call.outcome.kind = "return"
    /\ call.outcome.value.dict["data"].dict["uri"] = PyStr("vless://abc")

\* C4: on an answer whose body is not JSON (an empty body included) every
\* JSON-returning method fails with a decode error and returns no value;
\* delete_user is the only method that returns normally.
C4_NonJsonBodyRaises ==
    (call.op # "none" /\ Answered /\ ~json_valid(call.response.text)) =>
        IF call.op = "delete_user"
        THEN call.outcome.kind = "return"
        ELSE call.outcome = Raise("JSONDecodeError")

\* reset_traffic answered 204 with an empty body raised the decode error
C4_Witness ==
    /\ call.op = "reset_traffic"
    /\ call.response = Answer(204, B_BLANK)
    /\ call.outcome = Raise("JSONDecodeError")

ActiveOnly(c) == "active_only" \in DOMAIN c.args /\ c.args["active_only"] = PyBool(TRUE)

\* C5: list_users(active_only=True) sends GET /api/users with the query
\* active=true and nothing else; list_users() and list_users(active_only=False)
\* send GET /api/users with no query at all.
C5_ListUsersQuery ==
    call.op = "list_users" =>
        /\ Len(call.sent) = 1
        /\ call.sent[1].method = "GET"
        /\ call.sent[1].url = base_url \o "/api/users"
        /\ call.sent[1].query = (IF ActiveOnly(call) THEN "active=true" ELSE "")

\* list_users(active_only=False) sent no query
C5_Witness ==
    /\ call.op = "list_users"
    /\ "active_only" \in DOMAIN call.args
    /\ call.args["active_only"] = PyBool(FALSE)
    /\ call.sent[1].query = ""

(***************************************************************************)
(* Reading a timestamp back: YYYY-MM-DDTHH:MM:SS[.ffffff]Z.                *)
(***************************************************************************)
IsDigit(c) == \E d \in 1..10 : Digits[d] = c

DigitVal(c) == (CHOOSE d \in 1..10 : Digits[d] = c) - 1

RECURSIVE Num(_, _, _)
\* the number written at positions i..j of cs
Num(cs, i, j) == IF j < i THEN 0 ELSE (Num(cs, i, j - 1) * 10) + DigitVal(cs[j])

AllDigits(cs, i, j) == \A k \in i..j : IsDigit(cs[k])

IsIsoZ(cs) ==
    /\ Len(cs) \in {20, 27}
    /\ cs[Len(cs)] = "Z"
    /\ AllDigits(cs, 1, 4) /\ cs[5] = "-" /\ AllDigits(cs, 6, 7) /\ cs[8] = "-"
    /\ AllDigits(cs, 9, 10) /\ cs[11] = "T" /\ AllDigits(cs, 12, 13) /\ cs[14] = ":"
    /\ AllDigits(cs, 15, 16) /\ cs[17] = ":" /\ AllDigits(cs, 18, 19)
    /\ Len(cs) = 27 => (cs[20] = "." /\ AllDigits(cs, 21, 26))
    /\ Num(cs, 1, 4) \in 1..9999
    /\ Num(cs, 6, 7) \in 1..12
    /\ Num(cs, 9, 10) \in 1..DaysInMonth(Num(cs, 1, 4), Num(cs, 6, 7))
    /\ Num(cs, 12, 13) \in 0..23 /\ Num(cs, 15, 16) \in 0..59 /\ Num(cs, 18, 19) \in 0..59

ParseIsoZ(cs) ==
    DateTime(ymd2ord(Num(cs, 1, 4), Num(cs, 6, 7), Num(cs, 9, 10)),
             Num(cs, 12, 13), Num(cs, 15, 16), Num(cs, 18, 19),
             IF Len(cs) = 27 THEN Num(cs, 21, 26) ELSE 0)

\* the body of the request a create_user call sent
Body(c) == c.sent[1].json.dict

\* what C6 says of a create_user call that sent its request
C6_Body(c) ==
    /\ Len(c.sent) = 1
    /\ c.sent[1].method = "POST"
    /\ c.sent[1].url = base_url \o "/api/users"
    /\ c.sent[1].query = ""
    /\ IsDict(c.sent[1].json)
    /\ DOMAIN Body(c) = {"username", "password", "traffic_limit", "expires_at"}
    /\ Body(c)["username"] = c.args["username"]
    /\ Body(c)["password"] = c.args["password"]
    /\ Body(c)["traffic_limit"] =
          (IF "traffic_limit" \in DOMAIN c.args THEN c.args["traffic_limit"] ELSE PyInt(0))
    /\ "days" \notin DOMAIN c.args =>
          /\ IsIsoZ(Body(c)["expires_at"].chars)
          /\ ParseIsoZ(Body(c)["expires_at"].chars).ordinal = c.clock.ordinal + 30

\* C6 as stated: every create_user call issues one POST /api/users whose body has
\* exactly the fields username, password, traffic_limit and expires_at, the first
\* three as passed, traffic_limit 0 when omitted, expires_at 30 days on when days
\* is omitted.
C6_Original == call.op = "create_user" => C6_Body(call)

\* C6 amended: the same, for every create_user call whose expiry date is within
\* datetime's range; a call beyond it raises OverflowError and issues no request.
C6_CreateUserBody ==
    call.op = "create_user" =>
        IF OutOfRange(call)
        THEN call.sent = <<>> /\ call.outcome = Raise("OverflowError")
        ELSE C6_Body(call)

\* create_user("bob", ...) with neither traffic_limit nor days sent traffic_limit 0
C6_Witness ==
    /\ call.op = "create_user"
    /\ DOMAIN call.args = {"username", "password"}
    /\ Len(call.sent) = 1
    /\ Body(call)["username"] = PyStr("bob")
    /\ Body(call)["traffic_limit"] = PyInt(0)

\* what C7 says of a create_user call: the expires_at it sent is the clock's
\* reading plus the days, later than the reading, ISO-8601 with a final "Z"
C7_Expiry(c) ==
    /\ Len(c.sent) = 1
    /\ LET cs == Body(c)["expires_at"].chars
       IN  /\ IsIsoZ(cs)
           /\ cs[Len(cs)] = "Z"
           /\ ParseIsoZ(cs) = [c.clock EXCEPT !.ordinal = c.clock.ordinal + DaysOf(c)]
           /\ ParseIsoZ(cs).ordinal > c.clock.ordinal

\* C7 as stated: for every days > 0 the expires_at sent is now + days.
C7_Original == (call.op = "create_user" /\ DaysOf(call) > 0) => C7_Expiry(call)

\* C7 amended: for every days > 0 with now + days no later than 9999-12-31 the
\* expires_at sent is now + days, later than now, ISO-8601 ending in "Z"; beyond
\* that date create_user raises OverflowError and sends nothing.
C7_ExpiresAt ==
    (call.op = "create_user" /\ DaysOf(call) > 0) =>
        IF OutOfRange(call)
        THEN call.sent = <<>> /\ call.outcome = Raise("OverflowError")
        ELSE C7_Expiry(call)

\* one day after 2024-02-29T23:59:59.999999 was sent as 2024-03-01T23:59:59.999999Z
C7_Witness ==
    /\ call.op = "create_user"
    /\ call.clock = DateTime(ymd2ord(2024, 2, 29), 23, 59, 59, 999999)
    /\ DaysOf(call) = 1
    /\ Len(call.sent) = 1
    /\ Body(call)["expires_at"].chars =
          <<"2", "0", "2", "4", "-", "0", "3", "-", "0", "1", "T", "2", "3", ":", "5", "9",
            ":", "5", "9", ".", "9", "9", "9", "9", "9", "9", "Z">>

\* the method and the path of the spec's table
TableMethod(op) ==
    CASE op \in {"health_check", "get_stats", "list_users", "get_user", "get_user_config"}
            -> "GET"
      [] op \in {"create_user", "reset_traffic"} -> "POST"
      [] op = "update_user" -> "PATCH"
      [] op = "delete_user" -> "DELETE"

TablePath(c) ==
    CASE c.op = "health_check" -> "/health"
      [] c.op = "get_stats" -> "/stats"
      [] c.op \in {"create_user", "list_users"} -> "/api/users"
      [] c.op \in {"get_user", "update_user", "delete_user"} ->
            "/api/users/" \o py_str(c.args["user_id"])
      [] c.op = "get_user_config" -> "/api/users/" \o py_str(c.args["user_id"]) \o "/config"
      [] c.op = "reset_traffic" ->
            "/api/users/" \o py_str(c.args["user_id"]) \o "/reset-traffic"

\* C8: every request a method issues has the method and the path of the table,
\* after base_url, with the user_id argument in the path; update_user's body is
\* its field->value pairs (no id), reset_traffic has no body.
C8_MethodAndPath ==
    \A i \in 1..Len(call.sent) :
        /\ call.sent[i].method = TableMethod(call.op)
        /\ call.sent[i].url = base_url \o TablePath(call)
        /\ call.op = "update_user" => call.sent[i].json = PyDict(call.args["kwargs"])
        /\ call.op \in (JsonOps \cup {"delete_user"}) \ {"update_user", "create_user"} =>
              call.sent[i].json = NoJson

\* reset_traffic(7) posted to <base_url>/api/users/7/reset-traffic without a body
C8_Witness ==
    /\ call.op = "reset_traffic"
    /\ call.args["user_id"] = PyInt(7)
    /\ Len(call.sent) = 1
    /\ call.sent[1].method = "POST"
    /\ call.sent[1].url = base_url \o "/api/users/7/reset-traffic"
    /\ call.sent[1].json = NoJson

SameInputs(a, b) ==
    a.op = b.op /\ a.args = b.args /\ a.clock = b.clock /\ a.response = b.response

\* C9: no call changes the client's base_url or session, and two calls of the
\* same method with the same arguments, clock reading and answer issue the same
\* requests and end the same way, whatever was called in between.
C9_Stateless ==
    /\ [][base_url' = base_url /\ session' = session]_vars
    /\ []((earlier.op # "none" /\ SameInputs(earlier, call)) =>
            (earlier.sent = call.sent /\ earlier.outcome = call.outcome))

\* list_users() was called twice with the same answer, and returned
C9_Witness ==
    /\ earlier.op = "list_users"
    /\ SameInputs(earlier, call)
    /\ earlier.outcome.kind = "return"
    /\ call.sent = earlier.sent

\* the method and the URL of the i-th request of main()
MainMethod(i) == <<"GET", "POST", "GET", "PATCH", "GET">>[i]

MainUrl(i) ==
    CASE i = 1 -> base_url \o "/health"
      [] i = 2 -> base_url \o "/api/users"
      [] i = 3 -> base_url \o "/api/users/" \o py_str(user.dict["data"].dict["id"]) \o "/config"
      [] i = 4 -> base_url \o "/api/users/" \o py_str(user.dict["data"].dict["id"])
      [] i = 5 -> base_url \o "/stats"

Succeeded(u) == IsDict(u) /\ py_truthy(dict_get(u, "success"))

\* C10: main() issues health_check, create_user and then, only when the
\* create_user result has a truthy success, get_user_config, update_user (both
\* with the id at data.id of that result) and get_stats, in this order; nothing
\* follows create_user otherwise; never a DELETE; nothing after a call that
\* ended in an error.
C10_MainOrder ==
    /\ Len(log) <= 5
    /\ Len(log) >= 3 =>
          (Succeeded(user) /\ subscript_ok(user, "data") /\ subscript_ok(user.dict["data"], "id"))
    /\ \A i \in 1..Len(log) :
          /\ log[i].method = MainMethod(i)
          /\ log[i].url = MainUrl(i)
          /\ log[i].method # "DELETE"
    /\ (pc \notin {"health", "create"} /\ call.op = "create_user"
        /\ call.outcome.kind = "return" /\ ~Succeeded(call.outcome.value)) =>
          (Len(log) = 2 /\ ~ENABLED MainNext)
    /\ call.outcome.kind = "raise" => ~ENABLED MainNext

\* a run that issued all five requests, the third for the id "abc"
C10_Witness ==
    /\ pc = "done"
    /\ Len(log) = 5
    /\ log[3].url = "http://localhost:8080/api/users/abc/config"
    /\ log[4].url = "http://localhost:8080/api/users/abc"
    /\ log[5].url = "http://localhost:8080/stats"

====
